---- MODULE Spec2Model ----
(***************************************************************************)
(* Model of sra/liftover_intropolis_hg38_to_hg19.py: the hg38 -> hg19      *)
(* liftover pipeline of intropolis junctions.                              *)
(*                                                                         *)
(* A line of a tab-separated file is modelled by the list of tokens that   *)
(* line.strip().split('\t') yields for it; '\t'.join(tokens) is the line   *)
(* holding these tokens.  The empty line (and what readline() returns at   *)
(* end of file) is the one-token list <<"">>.  A synthetic junction name   *)
(* "info_<i>;chrom;start;end;strand" is modelled by the list of its ';'    *)
(* separated parts (the "info_" prefix of the first part is left out: the  *)
(* part is discarded when the name is parsed).  Numbers written to files   *)
(* are decimal strings: str is ToString and int parses a decimal string.   *)
(***************************************************************************)
EXTENDS Integers, Sequences, FiniteSets, TLC

VARIABLES
    input_lines,        \* args.intropolis: the junction lines of the input file
    temp_hg38,          \* hg38.bed: the normalized intervals
    liftover_process,   \* exit status of the liftOver call
    hg19_exists,        \* whether liftOver left an hg19.bed file behind
    temp_hg19,          \* hg19.bed: the mapped intervals
    to_sort,            \* intropolis_and_liftover.tsv.gz: the combined stream
    sort_exit,          \* exit status of the sort utility inside the pipeline
    sorted_together,    \* sorted_together.tsv.gz: the sorted stream
    pos,                \* index of the next line readline() returns
    junction_1_tokens,
    junction_2_tokens,
    stdout,             \* the lines printed so far
    pc                  \* position of the script

vars == <<input_lines, temp_hg38, liftover_process, hg19_exists, temp_hg19,
          to_sort, sort_exit, sorted_together, pos, junction_1_tokens,
          junction_2_tokens, stdout, pc>>

-----------------------------------------------------------------------------
(* Bounds of the model *)

\* longest input file (number of junction lines)
MaxInput == 2
\* longest sorted stream handed directly to the merge-join loop
MaxRows == 4
\* largest coordinate value int() recognises
MaxCoord == 16

-----------------------------------------------------------------------------
(* Python helpers *)

Min(a, b) == IF a < b THEN a ELSE b

\* tokens[:n]
Take(tokens, n) == SubSeq(tokens, 1, Min(n, Len(tokens)))

\* tokens[m:n] (0-based, half-open, as in Python)
Slice(tokens, m, n) == SubSeq(tokens, m + 1, Min(n, Len(tokens)))

\* str(n) for an integer n
str(n) == ToString(n)

IntRange == (0 - 2) .. MaxCoord

\* whether int(s) succeeds (otherwise it raises ValueError)
IsInt(s) == \E n \in IntRange : ToString(n) = s

\* int(s) for a decimal string s
int(s) == CHOOSE n \in IntRange : ToString(n) = s

\* ['NA'] * 4
NA4 == <<"NA", "NA", "NA", "NA">>

\* ''.strip().split('\t'): the tokens of an empty line or of end of file
EOF == <<"">>

-----------------------------------------------------------------------------
(* Record Normalizer, lines 74-87 *)

\* whether lines 79-82 raise for this line: IndexError when a token of
\* tokens[0..3] is missing, ValueError when tokens[1] is no integer
NormalizeRaises(tokens) == Len(tokens) < 4 \/ ~IsInt(tokens[2])

\* junction_name built from the start as read, not as decremented
junction_name_OriginalStart(i, tokens) ==
    LET chrom == tokens[1]
        start == tokens[2]
        end == tokens[3]
        strand == tokens[4]
    IN <<str(i), chrom, start, end, strand>>

\* lines 79-84: the name carries the start as decremented on line 80
junction_name(i, tokens) ==
    LET chrom == tokens[1]
        start == str(int(tokens[2]) - 1)
        end == tokens[3]
        strand == tokens[4]
    IN <<str(i), chrom, start, end, strand>>

\* NormalizedInterval without the decrement of the start
NormalizedInterval_NoDecrement(i, tokens) ==
    LET chrom == tokens[1]
        start == str(int(tokens[2]))
        end == tokens[3]
        strand == tokens[4]
    IN <<chrom, start, end, junction_name(i, tokens), "1", strand>>

\* lines 78-87: the BED line written for the i-th (0-based) input line
NormalizedInterval(i, tokens) ==
    LET chrom == tokens[1]
        start == str(int(tokens[2]) - 1)
        end == tokens[3]
        strand == tokens[4]
    IN <<chrom, start, end, junction_name(i, tokens), "1", strand>>

\* number of leading lines the loop of line 77 handles before one raises
RECURSIVE GoodPrefix(_)
GoodPrefix(lines) ==
    IF lines = <<>> \/ NormalizeRaises(Head(lines)) THEN 0
    ELSE 1 + GoodPrefix(Tail(lines))

\* lines 74-87: the whole loop; an exception leaves the lines written so far
Normalize ==
    /\ pc = "normalize"
    /\ LET n == GoodPrefix(input_lines)
       IN /\ temp_hg38' = [k \in 1..n |-> NormalizedInterval(k - 1, input_lines[k])]
          /\ pc' = IF n = Len(input_lines) THEN "liftover" ELSE "aborted"
    /\ UNCHANGED <<input_lines, liftover_process, hg19_exists, temp_hg19, to_sort,
                   sort_exit, sorted_together, pos, junction_1_tokens,
                   junction_2_tokens, stdout>>

-----------------------------------------------------------------------------
(* External mapping invocation, lines 89-103 *)

\* offset between the two assemblies in the modelled chain
LiftShift == 2

\* the interval liftOver writes for a normalized interval it can map:
\* mapped chromosome and coordinates, name, score and strand kept
MappedInterval(bed) ==
    <<bed[1], str(int(bed[2]) + LiftShift), str(int(bed[3]) + LiftShift),
      bed[4], bed[5], bed[6]>>

\* the lines of bed whose (1-based) position is in keep, in order
RECURSIVE SelectLines(_, _, _)
SelectLines(bed, keep, k) ==
    IF k > Len(bed) THEN <<>>
    ELSE (IF k \in keep THEN <<MappedInterval(bed[k])>> ELSE <<>>)
         \o SelectLines(bed, keep, k + 1)

\* the (1-based) positions of the intervals liftOver reads before it meets a
\* line whose coordinates are no numbers, on which it gives up
MappableLines(bed) ==
    {k \in 1..Len(bed) : \A j \in 1..k : IsInt(bed[j][2]) /\ IsInt(bed[j][3])}

\* lines 89-103: subprocess.call returns the exit status and never raises on
\* it; liftOver maps some of the intervals and drops the others.  A failing
\* liftOver may leave no hg19.bed, a partial one or a complete one; it fails
\* when a line of hg38.bed cannot be read.
LiftOver ==
    /\ pc = "liftover"
    /\ \E status \in {0, 1}, keep \in SUBSET MappableLines(temp_hg38),
          exists \in BOOLEAN :
         /\ MappableLines(temp_hg38) # 1..Len(temp_hg38) => status = 1
         /\ status = 0 => exists
         /\ ~exists => keep = {}
         /\ liftover_process' = status
         /\ hg19_exists' = exists
         /\ temp_hg19' = SelectLines(temp_hg38, keep, 1)
    /\ pc' = "merge"
    /\ UNCHANGED <<input_lines, temp_hg38, to_sort, sort_exit, sorted_together, pos,
                   junction_1_tokens, junction_2_tokens, stdout>>

-----------------------------------------------------------------------------
(* Stream Merger, lines 104-121 *)

\* LiftRow without the +1 that restores the 1-based hg38 start
LiftRow_NoRestore(line) ==
    LET chrom == line[1]
        start == int(line[2])
        end == line[3]
        name == line[4]
        strand == line[6]
        hg38_chrom == name[2]
        hg38_start == int(name[3])
        hg38_end == name[4]
        hg38_strand == name[5]
    IN <<hg38_chrom, str(hg38_start), hg38_end, hg38_strand,
         chrom, str(start + 1), end, strand, "FAKE">>

\* lines 108-118: the lift row reconstructed from one line of hg19.bed
LiftRow(line) ==
    LET chrom == line[1]
        start == int(line[2])
        end == line[3]
        name == line[4]
        strand == line[6]
        hg38_chrom == name[2]
        hg38_start == int(name[3])
        hg38_end == name[4]
        hg38_strand == name[5]
    IN <<hg38_chrom, str(hg38_start + 1), hg38_end, hg38_strand,
         chrom, str(start + 1), end, strand, "FAKE">>

\* Merge writing the input lines before the lift rows
Merge_OriginFirst ==
    /\ pc = "merge"
    /\ IF hg19_exists
       THEN /\ to_sort' = input_lines
                          \o [k \in 1..Len(temp_hg19) |-> LiftRow(temp_hg19[k])]
            /\ pc' = "sort"
       ELSE /\ to_sort' = <<>>
            /\ pc' = "aborted"
    /\ UNCHANGED <<input_lines, temp_hg38, liftover_process, hg19_exists, temp_hg19,
                   sort_exit, sorted_together, pos, junction_1_tokens,
                   junction_2_tokens, stdout>>

\* lines 104-121: lift rows in hg19.bed order, then the input lines verbatim;
\* open(temp_hg19) raises IOError when the file does not exist
Merge ==
    /\ pc = "merge"
    /\ IF hg19_exists
       THEN /\ to_sort' = [k \in 1..Len(temp_hg19) |-> LiftRow(temp_hg19[k])]
                          \o input_lines
            /\ pc' = "sort"
       ELSE /\ to_sort' = <<>>
            /\ pc' = "aborted"
    /\ UNCHANGED <<input_lines, temp_hg38, liftover_process, hg19_exists, temp_hg19,
                   sort_exit, sorted_together, pos, junction_1_tokens,
                   junction_2_tokens, stdout>>

-----------------------------------------------------------------------------
(* External sort, lines 122-127 *)

\* the tokens of the model other than decimal numbers, in byte order
TokenOrder ==
    <<"", "+", "-", "0,1", "2,3", "5,10", "7,8", "AC", "AG", "CT", "FAKE", "GT",
      "NA", "X", "chr1", "chr2">>

\* place of a token in byte order; a decimal number sorts with the digits
Rank(tok) ==
    LET t == IF IsInt(tok) THEN "0,1" ELSE tok
    IN CHOOSE i \in 1..Len(TokenOrder) : TokenOrder[i] = t

\* field i of a line as sort sees it (empty when the line is shorter)
Field(tokens, i) == IF i <= Len(tokens) THEN tokens[i] ELSE ""

\* value of a field under sort's -n (0 when it is no number)
Num(tok) == IF IsInt(tok) THEN int(tok) ELSE 0

\* sort's last-resort comparison of two whole lines, byte by byte
RECURSIVE LineLess(_, _)
LineLess(a, b) ==
    IF b = <<>> THEN FALSE
    ELSE IF a = <<>> THEN TRUE
    ELSE IF Rank(Head(a)) # Rank(Head(b)) THEN Rank(Head(a)) < Rank(Head(b))
    ELSE LineLess(Tail(a), Tail(b))

\* sort -k1,1 -k2,2n -k3,3n: whether line a sorts strictly before line b
SortLess(a, b) ==
    LET a1 == Rank(Field(a, 1))
        b1 == Rank(Field(b, 1))
        a2 == Num(Field(a, 2))
        b2 == Num(Field(b, 2))
        a3 == Num(Field(a, 3))
        b3 == Num(Field(b, 3))
    IN IF a1 # b1 THEN a1 < b1
       ELSE IF a2 # b2 THEN a2 < b2
       ELSE IF a3 # b3 THEN a3 < b3
       ELSE LineLess(a, b)

\* a line put into an already sorted list, after the lines not sorting after it
RECURSIVE InsertLine(_, _)
InsertLine(line, sorted) ==
    IF sorted = <<>> THEN <<line>>
    ELSE IF SortLess(line, Head(sorted)) THEN <<line>> \o sorted
    ELSE <<Head(sorted)>> \o InsertLine(line, Tail(sorted))

\* the output of sort for the given lines
RECURSIVE SortLines(_)
SortLines(lines) ==
    IF lines = <<>> THEN <<>>
    ELSE InsertLine(lines[Len(lines)], SortLines(SubSeq(lines, 1, Len(lines) - 1)))

\* the exit status check_call sees for 'gzip -cd | sort | gzip >out' run by
\* the shell: the status of the last command of the pipeline
PipelineStatus(gunzip_status, sort_status, gzip_status) == gzip_status

\* lines 122-127: a failing sort leaves some prefix of its output (possibly
\* nothing) to the final gzip; check_call raises on a non-zero pipeline status
Sort ==
    /\ pc = "sort"
    /\ \E status \in {0, 1}, gzip_status \in {0, 1}, n \in 0..Len(to_sort) :
         /\ status = 0 => n = Len(to_sort)
         /\ sort_exit' = status
         /\ sorted_together' = Take(SortLines(to_sort), n)
         /\ pc' = IF PipelineStatus(0, status, gzip_status) = 0 THEN "emit"
                  ELSE "aborted"
    /\ UNCHANGED <<input_lines, temp_hg38, liftover_process, hg19_exists, temp_hg19,
                   to_sort, pos, junction_1_tokens, junction_2_tokens, stdout>>

-----------------------------------------------------------------------------
(* Merge-Join Emitter, lines 128-162 *)

\* sorted_stream.readline().strip().split('\t') at position p
ReadLine(p) == IF p <= Len(sorted_together) THEN sorted_together[p] ELSE EOF

\* NextPos for a stream that is never advanced
NextPos_Stuck(p) == p

\* the position after a readline() at position p
NextPos(p) == IF p <= Len(sorted_together) THEN p + 1 ELSE p

\* SameKey comparing the three fields of the sort key only
SameKey_SortKeyOnly(tokens_1, tokens_2) == Take(tokens_1, 3) = Take(tokens_2, 3)

\* line 132: the two pending rows bear the same 4-field key
SameKey(tokens_1, tokens_2) == Take(tokens_1, 4) = Take(tokens_2, 4)

\* PairedOutput appending fields 6..9 of the lift row (marker kept)
PairedOutput_ShiftedSlice(tokens_1, tokens_2) ==
    LET hg19_tokens == IF Len(tokens_1) > Len(tokens_2) THEN tokens_1 ELSE tokens_2
        hg38_tokens == IF Len(tokens_1) > Len(tokens_2) THEN tokens_2 ELSE tokens_1
    IN hg38_tokens \o Slice(hg19_tokens, 5, 9)

\* PairedOutput taking the shorter row for the lift row
PairedOutput_LongerIsOrigin(tokens_1, tokens_2) ==
    LET hg19_tokens == IF Len(tokens_1) < Len(tokens_2) THEN tokens_1 ELSE tokens_2
        hg38_tokens == IF Len(tokens_1) < Len(tokens_2) THEN tokens_2 ELSE tokens_1
    IN hg38_tokens \o Slice(hg19_tokens, 4, 8)

\* PairedOutput taking the second row for the lift row whatever the lengths
PairedOutput_SecondIsLift(tokens_1, tokens_2) ==
    tokens_1 \o Slice(tokens_2, 4, 8)

\* PairedOutput taking the first of two rows of equal length for the lift row
PairedOutput_TieFirstIsLift(tokens_1, tokens_2) ==
    LET hg19_tokens == IF Len(tokens_1) >= Len(tokens_2) THEN tokens_1 ELSE tokens_2
        hg38_tokens == IF Len(tokens_1) >= Len(tokens_2) THEN tokens_2 ELSE tokens_1
    IN hg38_tokens \o Slice(hg19_tokens, 4, 8)

\* lines 134-140: the line printed for two rows of the same key
PairedOutput(tokens_1, tokens_2) ==
    LET hg19_tokens == IF Len(tokens_1) > Len(tokens_2) THEN tokens_1 ELSE tokens_2
        hg38_tokens == IF Len(tokens_1) > Len(tokens_2) THEN tokens_2 ELSE tokens_1
    IN hg38_tokens \o Slice(hg19_tokens, 4, 8)

\* lines 149, 155, 160: the line printed for a row without partner
UnpairedOutput(tokens) == tokens \o NA4

\* lines 128-130: open the sorted stream and read its first two lines
ReadFirstTwo ==
    /\ pc = "emit"
    /\ junction_1_tokens' = ReadLine(1)
    /\ junction_2_tokens' = ReadLine(NextPos(1))
    /\ pos' = NextPos(NextPos(1))
    /\ pc' = "loop"
    /\ UNCHANGED <<input_lines, temp_hg38, liftover_process, hg19_exists, temp_hg19,
                   to_sort, sort_exit, sorted_together, stdout>>

\* PairBranch without the print of line 149 for the row left over at the end
PairBranch_DropsLeftover ==
    /\ pc = "loop"
    /\ SameKey(junction_1_tokens, junction_2_tokens)
    /\ LET printed == PairedOutput(junction_1_tokens, junction_2_tokens)
           fresh_1 == ReadLine(pos)
           fresh_2 == ReadLine(NextPos(pos))
       IN IF fresh_1 = EOF
          THEN /\ stdout' = Append(stdout, printed)
               /\ junction_1_tokens' = EOF
               /\ junction_2_tokens' = junction_2_tokens
               /\ pos' = NextPos(pos)
               /\ pc' = "done"
          ELSE IF fresh_2 = EOF
          THEN /\ stdout' = Append(stdout, printed)
               /\ junction_1_tokens' = fresh_1
               /\ junction_2_tokens' = EOF
               /\ pos' = NextPos(NextPos(pos))
               /\ pc' = "done"
          ELSE /\ stdout' = Append(stdout, printed)
               /\ junction_1_tokens' = fresh_1
               /\ junction_2_tokens' = fresh_2
               /\ pos' = NextPos(NextPos(pos))
               /\ pc' = "loop"
    /\ UNCHANGED <<input_lines, temp_hg38, liftover_process, hg19_exists, temp_hg19,
                   to_sort, sort_exit, sorted_together>>

\* lines 132-151: one iteration of the loop through the pair branch
PairBranch ==
    /\ pc = "loop"
    /\ SameKey(junction_1_tokens, junction_2_tokens)
    /\ LET printed == PairedOutput(junction_1_tokens, junction_2_tokens)
           fresh_1 == ReadLine(pos)
           fresh_2 == ReadLine(NextPos(pos))
       IN IF fresh_1 = EOF
          THEN /\ stdout' = Append(stdout, printed)
               /\ junction_1_tokens' = EOF
               /\ junction_2_tokens' = junction_2_tokens
               /\ pos' = NextPos(pos)
               /\ pc' = "done"
          ELSE IF fresh_2 = EOF
          THEN /\ stdout' = stdout \o <<printed, UnpairedOutput(fresh_1)>>
               /\ junction_1_tokens' = fresh_1
               /\ junction_2_tokens' = EOF
               /\ pos' = NextPos(NextPos(pos))
               /\ pc' = "done"
          ELSE /\ stdout' = Append(stdout, printed)
               /\ junction_1_tokens' = fresh_1
               /\ junction_2_tokens' = fresh_2
               /\ pos' = NextPos(NextPos(pos))
               /\ pc' = "loop"
    /\ UNCHANGED <<input_lines, temp_hg38, liftover_process, hg19_exists, temp_hg19,
                   to_sort, sort_exit, sorted_together>>

\* UnpairedBranch without the print of line 160 for the last row of the stream
UnpairedBranch_DropsLast ==
    /\ pc = "loop"
    /\ ~SameKey(junction_1_tokens, junction_2_tokens)
    /\ LET printed == UnpairedOutput(junction_1_tokens)
           fresh == ReadLine(pos)
       IN IF fresh = EOF
          THEN /\ stdout' = Append(stdout, printed)
               /\ junction_1_tokens' = junction_2_tokens
               /\ junction_2_tokens' = EOF
               /\ pc' = "done"
          ELSE /\ stdout' = Append(stdout, printed)
               /\ junction_1_tokens' = junction_2_tokens
               /\ junction_2_tokens' = fresh
               /\ pc' = "loop"
    /\ pos' = NextPos(pos)
    /\ UNCHANGED <<input_lines, temp_hg38, liftover_process, hg19_exists, temp_hg19,
                   to_sort, sort_exit, sorted_together>>

\* UnpairedBranch printing the next row instead of the current one on line 155
UnpairedBranch_PrintsNext ==
    /\ pc = "loop"
    /\ ~SameKey(junction_1_tokens, junction_2_tokens)
    /\ LET printed == UnpairedOutput(junction_2_tokens)
           fresh == ReadLine(pos)
       IN IF fresh = EOF
          THEN /\ stdout' = stdout \o <<printed, UnpairedOutput(junction_2_tokens)>>
               /\ junction_1_tokens' = junction_2_tokens
               /\ junction_2_tokens' = EOF
               /\ pc' = "done"
          ELSE /\ stdout' = Append(stdout, printed)
               /\ junction_1_tokens' = junction_2_tokens
               /\ junction_2_tokens' = fresh
               /\ pc' = "loop"
    /\ pos' = NextPos(pos)
    /\ UNCHANGED <<input_lines, temp_hg38, liftover_process, hg19_exists, temp_hg19,
                   to_sort, sort_exit, sorted_together>>

\* lines 152-162: one iteration of the loop through the else branch
UnpairedBranch ==
    /\ pc = "loop"
    /\ ~SameKey(junction_1_tokens, junction_2_tokens)
    /\ LET printed == UnpairedOutput(junction_1_tokens)
           fresh == ReadLine(pos)
       IN IF fresh = EOF
          THEN /\ stdout' = stdout \o <<printed, UnpairedOutput(junction_2_tokens)>>
               /\ junction_1_tokens' = junction_2_tokens
               /\ junction_2_tokens' = EOF
               /\ pc' = "done"
          ELSE /\ stdout' = Append(stdout, printed)
               /\ junction_1_tokens' = junction_2_tokens
               /\ junction_2_tokens' = fresh
               /\ pc' = "loop"
    /\ pos' = NextPos(pos)
    /\ UNCHANGED <<input_lines, temp_hg38, liftover_process, hg19_exists, temp_hg19,
                   to_sort, sort_exit, sorted_together>>

\* readline().strip().split('\t') at position p of a given stream
LineOf(stream, p) == IF p <= Len(stream) THEN stream[p] ELSE EOF

\* lines 131-162: what the loop prints from the pending rows tokens_1 and
\* tokens_2 on, p being the position of the next line of the stream
RECURSIVE LoopOutput(_, _, _, _)
LoopOutput(stream, tokens_1, tokens_2, p) ==
    IF SameKey(tokens_1, tokens_2)
    THEN LET printed == PairedOutput(tokens_1, tokens_2)
             fresh_1 == LineOf(stream, p)
             fresh_2 == LineOf(stream, p + 1)
         IN IF fresh_1 = EOF THEN <<printed>>
            ELSE IF fresh_2 = EOF THEN <<printed, UnpairedOutput(fresh_1)>>
            ELSE <<printed>> \o LoopOutput(stream, fresh_1, fresh_2, p + 2)
    ELSE LET printed == UnpairedOutput(tokens_1)
             fresh == LineOf(stream, p)
         IN IF fresh = EOF THEN <<printed, UnpairedOutput(tokens_2)>>
            ELSE <<printed>> \o LoopOutput(stream, tokens_2, fresh, p + 1)

\* lines 128-162: everything the emitter prints for a given sorted stream
EmitterOutput(stream) ==
    LoopOutput(stream, LineOf(stream, 1), LineOf(stream, 2), 3)

-----------------------------------------------------------------------------
(* Inputs of the model *)

BoundedSeq(S, n) == UNION {[1..k -> S] : k \in 0..n}

Key1 == <<"chr1", "5", "9", "+">>
Key2 == <<"chr1", "5", "9", "-">>
Key3 == <<"chr1", "6", "9", "+">>
Key4 == <<"chr2", "1", "10", "+">>

Payload1 == <<"GT", "AG", "0,1", "5,10">>
Payload2 == <<"CT", "AC", "2,3", "7,8">>

\* an input line (origin row): key, motifs, sample lists
OriginRow(key, payload) == key \o payload

\* the lift row the pipeline builds for a junction the mapper maps
LiftRowOf(key) ==
    LiftRow(MappedInterval(NormalizedInterval(0, OriginRow(key, Payload1))))

\* the junction lines input files are made of; two of them share a key
InputLineSet ==
    {OriginRow(k, Payload1) : k \in {Key1, Key2, Key3, Key4}}
        \cup {OriginRow(Key1, Payload2)}

\* rows of field counts other than 8 and 9
ShortRow == Take(OriginRow(Key3, Payload1), 7)
LongRow == LiftRowOf(Key3) \o <<"X">>

\* the rows sorted streams are made of
RowSet ==
    {OriginRow(k, Payload1) : k \in {Key1, Key2, Key3}}
        \cup {OriginRow(Key1, Payload2)}
        \cup {LiftRowOf(k) : k \in {Key1, Key2, Key3}}
        \cup {ShortRow, LongRow}

\* input lines that are no junction records: too few fields for the
\* normalizer to index, 7 fields, 9 fields, a start or an end that is no number
FewFieldsLine == Take(OriginRow(Key3, Payload1), 3)
SevenFieldsLine == Take(OriginRow(Key3, Payload1), 7)
NineFieldsLine == OriginRow(Key3, Payload1) \o <<"X">>
BadStartLine == <<"chr1", "X", "9", "+">> \o Payload1
BadEndLine == <<"chr1", "5", "X", "+">> \o Payload1

MalformedLineSet ==
    {FewFieldsLine, SevenFieldsLine, NineFieldsLine, BadStartLine, BadEndLine}

\* the lines of input files that may hold malformed lines
AnyLineSet ==
    {OriginRow(Key1, Payload1), OriginRow(Key3, Payload1)} \cup MalformedLineSet

-----------------------------------------------------------------------------
(* Specifications *)

\* the whole script, from the input file on
Init ==
    /\ input_lines \in BoundedSeq(InputLineSet, MaxInput)
    /\ temp_hg38 = <<>>
    /\ liftover_process = 0
    /\ hg19_exists = FALSE
    /\ temp_hg19 = <<>>
    /\ to_sort = <<>>
    /\ sort_exit = 0
    /\ sorted_together = <<>>
    /\ pos = 1
    /\ junction_1_tokens = EOF
    /\ junction_2_tokens = EOF
    /\ stdout = <<>>
    /\ pc = "normalize"

Next ==
    \/ Normalize
    \/ LiftOver
    \/ Merge
    \/ Sort
    \/ ReadFirstTwo
    \/ PairBranch
    \/ UnpairedBranch

Spec == Init /\ [][Next]_vars

\* the whole script on input files that may hold malformed lines
InitAnyInput ==
    /\ input_lines \in BoundedSeq(AnyLineSet, MaxInput)
    /\ temp_hg38 = <<>>
    /\ liftover_process = 0
    /\ hg19_exists = FALSE
    /\ temp_hg19 = <<>>
    /\ to_sort = <<>>
    /\ sort_exit = 0
    /\ sorted_together = <<>>
    /\ pos = 1
    /\ junction_1_tokens = EOF
    /\ junction_2_tokens = EOF
    /\ stdout = <<>>
    /\ pc = "normalize"

SpecAnyInput == InitAnyInput /\ [][Next]_vars

\* the merge-join emitter alone, on any sorted stream handed to it
InitEmitter ==
    /\ input_lines = <<>>
    /\ temp_hg38 = <<>>
    /\ liftover_process = 0
    /\ hg19_exists = TRUE
    /\ temp_hg19 = <<>>
    /\ to_sort = <<>>
    /\ sort_exit = 0
    /\ sorted_together \in BoundedSeq(RowSet, MaxRows)
    /\ pos = 1
    /\ junction_1_tokens = EOF
    /\ junction_2_tokens = EOF
    /\ stdout = <<>>
    /\ pc = "emit"

NextEmitter ==
    \/ ReadFirstTwo
    \/ PairBranch
    \/ UnpairedBranch

SpecEmitter == InitEmitter /\ [][NextEmitter]_vars

\* the emitter alone, running on as long as it can: the script is a single
\* thread that executes its next statement until the loop breaks
SpecEmitterFair == SpecEmitter /\ WF_vars(NextEmitter)

-----------------------------------------------------------------------------
(* Vocabulary of the properties *)

\* shapes of the rows of the sorted stream, told apart by field count
IsOriginRow(row) == Len(row) = 8
IsLiftRow(row) == Len(row) = 9

\* the 4-field join key (chrom, start, end, strand) of a row or output line
KeyOf(row) == Take(row, 4)

\* the positions of the origin rows (the junctions) of a stream
Junctions(stream) == {i \in DOMAIN stream : IsOriginRow(stream[i])}

\* every row is an origin row or a lift row, no two junctions share a key,
\* and every lift row is the only lift row of some junction of the stream
JunctionStream(stream) ==
    /\ \A i \in DOMAIN stream : IsOriginRow(stream[i]) \/ IsLiftRow(stream[i])
    /\ \A i, j \in DOMAIN stream :
         (i # j /\ Len(stream[i]) = Len(stream[j]))
             => KeyOf(stream[i]) # KeyOf(stream[j])
    /\ \A i \in DOMAIN stream :
         IsLiftRow(stream[i])
             => \E j \in Junctions(stream) : KeyOf(stream[j]) = KeyOf(stream[i])

\* the rows bearing one 4-field key are next to each other
KeyAdjacent(stream) ==
    \A i, j \in DOMAIN stream :
        (i < j /\ KeyOf(stream[i]) = KeyOf(stream[j])) => j = i + 1

\* the (chrom, start, end) sort key of row a is not after that of row b
SortKeyLeq(a, b) ==
    LET a1 == Rank(Field(a, 1))
        b1 == Rank(Field(b, 1))
        a2 == Num(Field(a, 2))
        b2 == Num(Field(b, 2))
        a3 == Num(Field(a, 3))
        b3 == Num(Field(b, 3))
    IN IF a1 # b1 THEN a1 < b1
       ELSE IF a2 # b2 THEN a2 < b2
       ELSE a3 <= b3

\* the lines are in ascending (chrom, start, end) order
SortedByKey(lines) ==
    \A i \in 1..(Len(lines) - 1) : SortKeyLeq(lines[i], lines[i + 1])

\* the OutputRow junction i of the stream is due: its origin row followed by
\* fields 5..8 of its lift row, or by four NA fields when it has none
ExpectedRow(stream, i) ==
    LET lifts == {j \in DOMAIN stream :
                    IsLiftRow(stream[j]) /\ KeyOf(stream[j]) = KeyOf(stream[i])}
    IN IF lifts = {} THEN stream[i] \o <<"NA", "NA", "NA", "NA">>
       ELSE LET lift == stream[CHOOSE j \in lifts : TRUE]
            IN stream[i] \o <<lift[5], lift[6], lift[7], lift[8]>>

\* one output line per junction, bearing the junction's key, and no other line
OneRowPerJunction(stream, out) ==
    /\ \A i \in Junctions(stream) :
         Cardinality({k \in DOMAIN out : KeyOf(out[k]) = KeyOf(stream[i])}) = 1
    /\ Len(out) = Cardinality(Junctions(stream))

\* every junction's due OutputRow is printed and nothing else is
RowsAsDue(stream, out) ==
    /\ \A i \in Junctions(stream) :
         \E k \in DOMAIN out : out[k] = ExpectedRow(stream, i)
    /\ \A k \in DOMAIN out :
         \E i \in Junctions(stream) : out[k] = ExpectedRow(stream, i)

-----------------------------------------------------------------------------
(* Properties of the Merge-Join Emitter, checked under SpecEmitter *)

\* C1: for a sorted stream of at least two rows whose junctions have distinct
\* keys and whose same-key rows are adjacent, the emitter has printed, when it
\* is done, exactly one line per junction bearing that junction's 4-field key,
\* and no further line (none for a lift row alone).
C1_CardinalityPreserved ==
    (/\ pc = "done"
     /\ Len(sorted_together) >= 2
     /\ JunctionStream(sorted_together)
     /\ KeyAdjacent(sorted_together))
        => /\ OneRowPerJunction(sorted_together, stdout)
           /\ \A k \in DOMAIN stdout : Len(stdout[k]) = 12

\* a run over a mapped junction and two unmapped ones has finished
C1_Witness ==
    /\ pc = "done"
    /\ Len(sorted_together) = 4
    /\ JunctionStream(sorted_together)
    /\ KeyAdjacent(sorted_together)
    /\ Cardinality(Junctions(sorted_together)) = 3
    /\ Len(stdout) = 3

\* C2: under the same preconditions the line printed for a junction with a
\* lift row is its 8 origin fields followed by fields 5..8 of its own lift
\* row (marker dropped), the line printed for a junction without lift row is
\* its 8 origin fields followed by four NA fields, and nothing else is printed.
C2_RowContent ==
    (/\ pc = "done"
     /\ Len(sorted_together) >= 2
     /\ JunctionStream(sorted_together)
     /\ KeyAdjacent(sorted_together))
        => RowsAsDue(sorted_together, stdout)

\* a run has printed a mapped row and an NA row
C2_Witness ==
    /\ pc = "done"
    /\ Len(sorted_together) >= 3
    /\ JunctionStream(sorted_together)
    /\ KeyAdjacent(sorted_together)
    /\ \E k \in DOMAIN stdout : stdout[k][9] = "NA"
    /\ \E k \in DOMAIN stdout : stdout[k][9] # "NA" /\ stdout[k][12] # "FAKE"

OutputRows(out) == SelectSeq(out, LAMBDA line : line[1] # "")

\* the 4-field keys of the lines, in order
Keys(lines) == [i \in DOMAIN lines |-> KeyOf(lines[i])]

\* whether a can be got from b by leaving elements out
RECURSIVE IsSubseq(_, _)
IsSubseq(a, b) ==
    IF a = <<>> THEN TRUE
    ELSE IF b = <<>> THEN FALSE
    ELSE IF Head(a) = Head(b) THEN IsSubseq(Tail(a), Tail(b))
    ELSE IsSubseq(a, Tail(b))

\* C7: at every moment the keys of the OutputRows printed so far follow the
\* order of the keys in the sorted stream (no row of a later stream position
\* is printed before a row of an earlier one), so the output of a stream in
\* ascending (chrom, start, end) order is in ascending order of the same key.
C7_OutputOrder ==
    /\ IsSubseq(Keys(OutputRows(stdout)), Keys(sorted_together))
    /\ SortedByKey(sorted_together) => SortedByKey(OutputRows(stdout))

\* a run over an ascending stream of several keys has printed three rows
C7_Witness ==
    /\ pc = "done"
    /\ Len(sorted_together) = 4
    /\ SortedByKey(sorted_together)
    /\ Len(OutputRows(stdout)) >= 3
    /\ KeyOf(stdout[1]) # KeyOf(stdout[3])
    /\ ~SortKeyLeq(stdout[3], stdout[1])

\* a lift row without origin row of its key, or a row of another field count
Offending(stream, i) ==
    \/ /\ IsLiftRow(stream[i])
       /\ ~\E j \in Junctions(stream) : KeyOf(stream[j]) = KeyOf(stream[i])
    \/ ~(IsOriginRow(stream[i]) \/ IsLiftRow(stream[i]))

\* C10 as stated: when the stream holds a lift row without matching origin
\* row, or a row of neither 8 nor 9 fields, the emitter does not run to its
\* end and prints no line built from such a row with four NA fields appended.
C10_DesynchronizedIsFatal ==
    \A i \in DOMAIN sorted_together :
        Offending(sorted_together, i)
            => /\ pc # "done"
               /\ \A k \in DOMAIN stdout : stdout[k] # sorted_together[i] \o NA4

\* the junction whose origin row comes last in the stream
LastJunction(stream) ==
    CHOOSE i \in Junctions(stream) : \A j \in Junctions(stream) : j <= i

\* the ways the loop ends: the first read after a pair hits end of file
\* (line 142), the second read after a pair does (line 147), the read after an
\* unpaired row does (line 158)
EndedAfterPair == pc = "done" /\ junction_1_tokens = EOF
EndedAfterPairAndOne ==
    /\ pc = "done"
    /\ junction_2_tokens = EOF
    /\ Len(sorted_together) >= 3
    /\ SameKey(sorted_together[Len(sorted_together) - 2],
               sorted_together[Len(sorted_together) - 1])
EndedAfterUnpaired ==
    /\ pc = "done"
    /\ junction_2_tokens = EOF
    /\ junction_1_tokens # EOF
    /\ ~EndedAfterPairAndOne

\* C12: when the emitter is done with a stream of at least two rows, in
\* whichever of the three ways the stream ran out, the line printed last is
\* the due OutputRow of the last junction, every junction's due OutputRow is
\* printed exactly once, and there is no further line.
C12_EndOfStream ==
    (/\ EndedAfterPair \/ EndedAfterPairAndOne \/ EndedAfterUnpaired
     /\ Len(sorted_together) >= 2
     /\ JunctionStream(sorted_together)
     /\ KeyAdjacent(sorted_together))
        => /\ stdout # <<>>
           /\ stdout[Len(stdout)]
                = ExpectedRow(sorted_together, LastJunction(sorted_together))
           /\ \A i \in Junctions(sorted_together) :
                Cardinality({k \in DOMAIN stdout :
                               stdout[k] = ExpectedRow(sorted_together, i)}) = 1
           /\ Len(stdout) = Cardinality(Junctions(sorted_together))

\* a run over an unmapped junction followed by a mapped last junction has
\* printed one NA row and then one mapped row
C12_Witness ==
    /\ EndedAfterPair
    /\ Len(sorted_together) = 3
    /\ JunctionStream(sorted_together)
    /\ KeyAdjacent(sorted_together)
    /\ IsOriginRow(sorted_together[1])
    /\ SameKey(sorted_together[2], sorted_together[3])
    /\ Len(stdout) = 2
    /\ stdout[1][9] = "NA"
    /\ stdout[2][9] # "NA"

\* rows p and p+1 are the origin row and the lift row of one junction
PairAt(stream, p) ==
    /\ p \in 1..(Len(stream) - 1)
    /\ KeyOf(stream[p]) = KeyOf(stream[p + 1])
    /\ {Len(stream[p]), Len(stream[p + 1])} = {8, 9}

\* the stream with rows p and p+1 exchanged
SwapAt(stream, p) ==
    [i \in DOMAIN stream |->
        IF i = p THEN stream[p + 1] ELSE IF i = p + 1 THEN stream[p] ELSE stream[i]]

\* C13: what the emitter has printed when done is what it prints for the
\* stream with the two rows of any of its pairs exchanged (the stream being
\* well-formed), and the line of each pair is its 8-field row followed by
\* fields 5..8 of its 9-field row, whichever of the two comes first.
C13_PairOrderIndependent ==
    pc = "done" =>
        /\ stdout = EmitterOutput(sorted_together)
        /\ (JunctionStream(sorted_together) /\ KeyAdjacent(sorted_together))
            => \A p \in DOMAIN sorted_together :
                 PairAt(sorted_together, p)
                    => /\ EmitterOutput(SwapAt(sorted_together, p)) = stdout
                       /\ LET a == sorted_together[p]
                              b == sorted_together[p + 1]
                              origin == IF Len(a) = 8 THEN a ELSE b
                              lift == IF Len(a) = 8 THEN b ELSE a
                          IN \E k \in DOMAIN stdout :
                               stdout[k] = origin \o SubSeq(lift, 5, 8)

\* a run over a pair with the lift row first and a pair with the origin row
\* first has finished
C13_Witness ==
    /\ pc = "done"
    /\ Len(sorted_together) = 4
    /\ JunctionStream(sorted_together)
    /\ PairAt(sorted_together, 1)
    /\ PairAt(sorted_together, 3)
    /\ IsLiftRow(sorted_together[1])
    /\ IsOriginRow(sorted_together[3])
    /\ Len(stdout) = 2

\* the first two rows of the stream bear one key and have one shape (two
\* origin rows, or two lift rows)
CollisionAtHead(stream) ==
    /\ Len(stream) >= 2
    /\ KeyOf(stream[1]) = KeyOf(stream[2])
    /\ Len(stream[1]) = Len(stream[2])
    /\ IsOriginRow(stream[1]) \/ IsLiftRow(stream[1])

\* C14: two adjacent rows of the same key and the same shape are joined
\* without error, the first as origin row and the second as lift row: the
\* first line printed is the first row followed by fields 5..8 of the second,
\* and for a stream of two such rows it is the only line, so two junctions of
\* one key get one line between them.
C14_DuplicateKeyMispairs ==
    CollisionAtHead(sorted_together)
        => /\ pc # "aborted"
           /\ stdout # <<>>
                => stdout[1] = sorted_together[1] \o SubSeq(sorted_together[2], 5, 8)
           /\ (pc = "done" /\ Len(sorted_together) = 2)
                => /\ Len(stdout) = 1
                   /\ ~OneRowPerJunction(sorted_together, stdout)

\* a run over two unmapped junctions of one key has printed its single line,
\* which ends with the motifs and sample lists of the second junction
C14_Witness ==
    /\ pc = "done"
    /\ Len(sorted_together) = 2
    /\ CollisionAtHead(sorted_together)
    /\ IsOriginRow(sorted_together[1])
    /\ sorted_together[1] # sorted_together[2]
    /\ Len(stdout) = 1
    /\ SubSeq(stdout[1], 9, 12) = SubSeq(sorted_together[2], 5, 8)

\* C18: on every stream the emitter comes to its end; every iteration of the
\* loop reads at least one further row or ends the loop, the read position
\* never moves back (no row is read twice) and never passes the end of the
\* stream, so at most the two rows before it are pending.
C18_TerminatesForwardOnly ==
    /\ <>(pc = "done")
    /\ [][pc = "loop" => (pos' > pos \/ pc' = "done")]_vars
    /\ [][pos' >= pos]_vars
    /\ [](pos <= Len(sorted_together) + 1)
    /\ [](pc = "loop" /\ Len(sorted_together) >= 2 =>
            /\ pos >= 3
            /\ junction_1_tokens = LineOf(sorted_together, pos - 2)
            /\ junction_2_tokens = LineOf(sorted_together, pos - 1))

\* the emitter has come to its end having read all four rows of a stream
C18_Witness ==
    /\ pc = "done"
    /\ Len(sorted_together) = 4
    /\ pos = 5
    /\ Len(stdout) >= 2

\* the sets of positions at which a pairing of two adjacent rows of the stream
\* can start: the two rows have equal first four fields and no two pairings
\* share a row
Pairings(stream) ==
    {P \in SUBSET (1 .. Len(stream) - 1) :
        /\ \A i \in P : Take(stream[i], 4) = Take(stream[i + 1], 4)
        /\ \A i \in P : i + 1 \notin P}

\* the output lines from the o-th on account for the rows from the i-th on,
\* each row once: a row outside the pairings alone with four NA fields, the two
\* rows of a pairing on one line (one of them whole, then fields 5 to 8 of the
\* other)
RECURSIVE AccountsFor(_, _, _, _, _)
AccountsFor(out, stream, P, i, o) ==
    IF i > Len(stream) THEN o = Len(out) + 1
    ELSE /\ o <= Len(out)
         /\ IF i \in P
            THEN /\ out[o] \in {stream[i] \o Slice(stream[i + 1], 4, 8),
                                stream[i + 1] \o Slice(stream[i], 4, 8)}
                 /\ AccountsFor(out, stream, P, i + 2, o + 1)
            ELSE /\ out[o] = stream[i] \o NA4
                 /\ AccountsFor(out, stream, P, i + 1, o + 1)

\* C19: for every stream of at least two non-empty rows, of any shapes and
\* keys, the rows split into pairings of two adjacent rows with equal first
\* four fields and single rows, such that the output has, in order, one line per
\* pairing and one line (the row and four NA fields) per single row: the number
\* of output lines is the number of rows minus the number of pairings, and no
\* row is dropped or used twice.
C19_RowConservation ==
    (/\ pc = "done"
     /\ Len(sorted_together) >= 2
     /\ \A k \in DOMAIN sorted_together : sorted_together[k][1] # "") =>
        \E P \in Pairings(sorted_together) :
            /\ AccountsFor(stdout, sorted_together, P, 1, 1)
            /\ Len(stdout) = Len(sorted_together) - Cardinality(P)

\* the emitter has ended on a stream of four rows, one of them neither an
\* origin nor a lift row, having printed one pairing and two single rows
C19_Witness ==
    /\ pc = "done"
    /\ Len(sorted_together) = 4
    /\ Len(stdout) = 3
    /\ \E k \in DOMAIN sorted_together :
         ~(IsOriginRow(sorted_together[k]) \/ IsLiftRow(sorted_together[k]))
    /\ \E P \in Pairings(sorted_together) :
         /\ Cardinality(P) = 1
         /\ AccountsFor(stdout, sorted_together, P, 1, 1)

-----------------------------------------------------------------------------
(* Properties of the whole script, checked under Spec *)

\* the stream holds the rows of exactly one junction
OneJunctionStream(stream) ==
    JunctionStream(stream) /\ Cardinality(Junctions(stream)) = 1

\* no external tool failed in this run
CleanRun == liftover_process = 0 /\ sort_exit = 0

\* C3 as stated, for runs in which no tool failed: when the sorted stream
\* holds the rows of exactly one junction the emitter prints exactly one line,
\* the junction's due OutputRow.
C3_SingleRecord ==
    (pc = "done" /\ CleanRun /\ OneJunctionStream(sorted_together))
        => stdout = <<ExpectedRow(sorted_together,
                                  CHOOSE i \in Junctions(sorted_together) : TRUE)>>

\* C4 as stated, for runs in which no tool failed: when the sorted stream
\* holds no row the emitter ends having printed nothing.
C4_EmptyStream ==
    (pc = "done" /\ CleanRun /\ sorted_together = <<>>) => stdout = <<>>

\* the Stream Merger has written the combined stream
Merged == hg19_exists /\ pc \notin {"normalize", "liftover", "merge"}

\* the ordinal (0-based input position) a mapped interval carries in its name
OrdinalOf(mapped) == int(mapped[4][1])

\* C6: the combined stream holds exactly one origin row per junction (the
\* input lines), and one lift row per interval the mapper returned, at most
\* one per junction; the lift row's reconstructed 4-field key is the key of
\* the junction it stems from, its start being the junction's 1-based start.
C6_KeyIdentity ==
    Merged =>
        /\ SelectSeq(to_sort, IsOriginRow) = input_lines
        /\ Len(SelectSeq(to_sort, IsLiftRow)) = Len(temp_hg19)
        /\ \A k \in DOMAIN temp_hg19 :
             LET junction == input_lines[OrdinalOf(temp_hg19[k]) + 1]
             IN /\ IsLiftRow(to_sort[k])
                /\ KeyOf(to_sort[k]) = KeyOf(junction)
                /\ to_sort[k][2] = junction[2]
        /\ \A k, l \in DOMAIN temp_hg19 :
             k # l => OrdinalOf(temp_hg19[k]) # OrdinalOf(temp_hg19[l])

\* the merger has combined two junctions of which the mapper returned the
\* second only
C6_Witness ==
    /\ Merged
    /\ Len(input_lines) = 2
    /\ Len(temp_hg19) = 1
    /\ OrdinalOf(temp_hg19[1]) = 1
    /\ KeyOf(to_sort[1]) = KeyOf(input_lines[2])
    /\ KeyOf(to_sort[1]) # KeyOf(input_lines[1])

\* C8 as stated: when the mapping tool exits with a non-zero status the run
\* goes no further than the mapper (neither merger, sort nor emitter run) and
\* nothing is printed.
C8_MapperFailureIsFatal ==
    liftover_process # 0
        => /\ pc \in {"merge", "aborted"}
           /\ to_sort = <<>>
           /\ stdout = <<>>

\* C9 as stated: when the sort utility exits with a non-zero status the
\* emitter never reads the sorted file and nothing is printed.
C9_SortFailureIsFatal ==
    sort_exit # 0 => (pc = "aborted" /\ stdout = <<>>)

\* C15: the combined stream is one 9-field lift row per interval of hg19.bed,
\* in the order of that file (key from the synthetic name with its start + 1,
\* mapped chrom, mapped start + 1, mapped end, mapped strand, marker), and
\* then the input lines, unchanged and in input order, and nothing else.
C15_MergerOutput ==
    Merged =>
        /\ Len(to_sort) = Len(temp_hg19) + Len(input_lines)
        /\ \A k \in DOMAIN temp_hg19 :
             LET mapped == temp_hg19[k]
                 name == mapped[4]
             IN to_sort[k] = <<name[2], str(int(name[3]) + 1), name[4], name[5],
                               mapped[1], str(int(mapped[2]) + 1), mapped[3],
                               mapped[6], "FAKE">>
        /\ \A k \in DOMAIN input_lines :
             to_sort[Len(temp_hg19) + k] = input_lines[k]

\* the merger has combined two different junctions, both mapped
C15_Witness ==
    /\ Merged
    /\ Len(temp_hg19) = 2
    /\ Len(input_lines) = 2
    /\ input_lines[1] # input_lines[2]
    /\ Len(to_sort) = 4
    /\ IsLiftRow(to_sort[2])
    /\ IsOriginRow(to_sort[3])

\* C16: for n well-formed input lines the normalizer writes n intervals, the
\* k-th (0-based) from the k-th line with ordinal k, chromosome, end and
\* strand unchanged, start one less, score constant; identical lines are kept.
C16_NormalizerOutput ==
    pc # "normalize" =>
        /\ Len(temp_hg38) = Len(input_lines)
        /\ \A k \in DOMAIN input_lines :
             LET line == input_lines[k]
                 bed == temp_hg38[k]
             IN /\ Len(bed) = 6
                /\ bed[1] = line[1]
                /\ int(bed[2]) = int(line[2]) - 1
                /\ bed[3] = line[3]
                /\ bed[4][1] = str(k - 1)
                /\ bed[5] = "1"
                /\ bed[6] = line[4]

\* the normalizer has written two intervals for two identical lines
C16_Witness ==
    /\ pc = "liftover"
    /\ Len(input_lines) = 2
    /\ input_lines[1] = input_lines[2]
    /\ Len(temp_hg38) = 2
    /\ temp_hg38[1][4][1] = "0"
    /\ temp_hg38[2][4][1] = "1"

-----------------------------------------------------------------------------
(* Properties of the whole script on any input, checked under SpecAnyInput *)

\* an input line that is no junction record: its field count is not 8, or its
\* start or its end is no integer
Malformed(tokens) ==
    \/ Len(tokens) # 8
    \/ ~IsInt(tokens[2])
    \/ ~IsInt(tokens[3])

\* C11 as stated: when the input holds a line of another field count than 8,
\* or with a start or end that is no integer, the normalizer aborts the run:
\* no such line is normalized or copied into the combined stream and nothing
\* is printed.
C11_MalformedIsFatal ==
    (pc # "normalize" /\ \E k \in DOMAIN input_lines : Malformed(input_lines[k]))
        => /\ pc = "aborted"
           /\ \A k \in DOMAIN input_lines :
                Malformed(input_lines[k]) => Len(temp_hg38) < k
           /\ to_sort = <<>>
           /\ stdout = <<>>

====
